---- MODULE Spec2Model ----
(***************************************************************************)
(* A model of kodo (src/kodo/core.py): the Proxy Isolation Scope           *)
(* (ProxyManager), the timeout-bounded command execution of both adapters  *)
(* (DockerManager.execute_command, KubernetesManager.execute_command) and  *)
(* the target lifecycle behind ContainerRunner (start, readiness wait,     *)
(* file injection, delete, cleanup).                                       *)
(*                                                                         *)
(* Three specifications share the module:                                  *)
(*   SpecExec   one caller running execute_command against an engine      *)
(*              whose exec call may finish, raise, finish late or hang;    *)
(*   SpecProxy  one thread entering and leaving a ProxyManager scope;      *)
(*   SpecProxyThreads  two threads, each with a scope of its own, over the *)
(*              one process environment;                                   *)
(*   Spec       one caller driving a ContainerRunner over either backend;  *)
(*   SpecTeardown  cleanup() / close() over a ManagedSet of several names; *)
(*   SpecPatch  apply_patch_to_container (src/kodo/utils.py);              *)
(*   SpecNames  one process calling ContainerUtils.get_container_name;     *)
(*   SpecIsolation  one caller's KubernetesManager operations, each inside *)
(*              its ProxyManager scope(s), with the API calls they make;   *)
(*   SpecRace   two callers running start_pod for one name concurrently.   *)
(***************************************************************************)
EXTENDS Integers, Sequences, FiniteSets, TLC

VARIABLES
    \* ---- execute_command (SpecExec)
    xAdapter,      \* "docker" | "kubernetes": whose execute_command runs
    xTimeout,      \* the timeout argument of the call
    xpc,           \* the caller's position inside execute_command
    xWorker,       \* the single worker of the ThreadPoolExecutor
    xElapsed,      \* seconds spent so far in future.result(timeout=...)
    xGot,          \* what future.result(...) gave the caller
    xResult,       \* the pair execute_command returned
    xExecCalls     \* exec invocations issued to the engine by this call

VARIABLES
    \* ---- ProxyManager (SpecProxy)
    environ,       \* os.environ restricted to the eight proxy variables
    environ0,      \* os.environ as it was before the outermost scope was entered
    pm,            \* the ProxyManager object of each scope
    ppc,           \* each scope's position: "before" | "open" | "closing" | "after"
    opRaised       \* whether the operation wrapped by each scope raised

VARIABLES
    \* ---- ContainerRunner over one adapter (Spec)
    requested,     \* the backend identifier given to ContainerRunner(...)
    manager,       \* self.manager: which adapter was constructed, or "none"
    backend,       \* self.backend: "docker" | "kubernetes", or "unset"
    retries,       \* the max_retries argument this caller gives to start_pod
    engine,        \* the engine's targets: name -> [status, image]
    pods,          \* keys of KubernetesManager.pods (the ManagedSet)
    pods0,         \* keys of KubernetesManager.pods when the call began
    containers,    \* keys of DockerManager.containers (the ManagedSet)
    rpc,           \* the caller's position: "idle" or inside a call
    call,          \* the call in progress, or the last one made
    outcome,       \* of that call: "running" | "returned" | "raised"
    attempt,       \* loop variable of the retry loop
    backoff,       \* backoff / retry_delay
    delays,        \* the arguments of time.sleep in that call, in order
    createCalls,   \* creation calls that call issued to the engine
    createOk,      \* whether one of them succeeded
    reused,        \* whether that call found the target by name
    lastStatus,    \* the failure of the latest failed engine call
    events,        \* phases of the events the readiness wait consumed
    waitLate,      \* time.time() - start_time > timeout
    waitEnd,       \* how _wait_for_pod_running ended
    tarCursor,     \* read cursor of tar_stream
    written,       \* the byte counts handed to write_stdin by the attempts
    prev,          \* summary of the call before, when this call repeats it
    fresh,         \* the engine has not changed a target by itself since the
                   \* call began
    assigned,      \* name -> the images of the targets starts returned for it
    watchStopped   \* whether the readiness wait called w.stop()

VARIABLES
    \* ---- KubernetesManager.cleanup / DockerManager.close (SpecTeardown)
    tdBackend,     \* "docker" | "kubernetes": whose teardown runs
    tdEngine,      \* which names have a target in the engine
    tdManaged,     \* keys of self.pods / self.containers
    tdSnapshot,    \* list(self.pods.keys()) as taken when the call began
    tdOrder,       \* the names whose teardown was attempted, in order
    tdFailed,      \* the names whose teardown failed in the engine
    tdpc,          \* "idle" | "loop" | "closing" | "done"
    tdCause        \* what the call propagated: "none" | "teardown" | "client_close"

VARIABLES
    \* ---- apply_patch_to_container (SpecPatch)
    apAdapter,     \* the backend of the Runner the patch goes through
    apc,           \* "idle" | "written" | "copied" | "done"
    apTemp,        \* the local temporary file: "none" | "exists" | "deleted"
    apLog,         \* the steps performed so far, in order
    apCopy,        \* runner.copy_to_container: "none" | "ok" | "raised"
    apExec,        \* the pair runner.execute_command returned
    apResult,      \* the pair apply_patch_to_container returned
    apOutcome      \* "none" | "returned" | "raised"

VARIABLES
    \* ---- ContainerUtils.get_container_name (SpecNames)
    gnPid,         \* os.getpid() of the process
    gnClock,       \* what datetime.datetime.now() reads at present
    gnFirst,       \* the call before the latest one: image, time read, name
    gnSecond       \* the latest call

VARIABLES
    \* ---- KubernetesManager operations inside their scopes (SpecIsolation)
    isoOp,         \* the method the caller is in, or "none"
    isoApi,        \* the cluster API call in flight on the caller's thread
    isoDone,       \* the API calls of this operation that are over
    isoFailed      \* whether the operation is raising

VARIABLES
    \* ---- two callers of start_pod for one name (SpecRace)
    rcEngine,      \* whether the pod exists in the cluster
    rcAccepted,    \* creations of that pod the cluster accepted
    rcMax,         \* the max_retries argument of both calls
    rcPc,          \* caller -> "idle" | "create" | "wait" | "done"
    rcAttempt,     \* caller -> loop variable of the creation loop
    rcReads,       \* caller -> read_namespaced_pod calls issued
    rcCreates,     \* caller -> create_namespaced_pod calls issued
    rcConflicts,   \* caller -> how many of them were answered 409
    rcOutcome,     \* caller -> "none" | "returned" | "raised"
    rcPods         \* caller -> keys of its adapter's self.pods

execVars == <<xAdapter, xTimeout, xpc, xWorker, xElapsed, xGot, xResult, xExecCalls>>
proxyVars == <<environ, environ0, pm, ppc, opRaised>>

runnerVars ==
    <<requested, manager, backend, retries, engine, pods, pods0, containers,
      rpc, call, outcome, attempt, backoff, delays, createCalls, createOk,
      reused, lastStatus, events, waitLate, waitEnd, tarCursor, written, prev,
      fresh, assigned, watchStopped>>

teardownVars ==
    <<tdBackend, tdEngine, tdManaged, tdSnapshot, tdOrder, tdFailed, tdpc, tdCause>>

patchVars == <<apAdapter, apc, apTemp, apLog, apCopy, apExec, apResult, apOutcome>>

nameVars == <<gnPid, gnClock, gnFirst, gnSecond>>

isoVars == <<isoOp, isoApi, isoDone, isoFailed>>
raceVars ==
    <<rcEngine, rcAccepted, rcMax, rcPc, rcAttempt, rcReads, rcCreates,
      rcConflicts, rcOutcome, rcPods>>

vars ==
    <<execVars, proxyVars, runnerVars, teardownVars, patchVars, nameVars,
      isoVars, raceVars>>

\* what the steps of one component leave alone
nonExecVars ==
    <<proxyVars, runnerVars, teardownVars, patchVars,
      nameVars, isoVars, raceVars>>
nonProxyVars ==
    <<execVars, runnerVars, teardownVars, patchVars,
      nameVars, isoVars, raceVars>>
nonRunnerVars ==
    <<execVars, proxyVars, teardownVars, patchVars,
      nameVars, isoVars, raceVars>>
nonTeardownVars ==
    <<execVars, proxyVars, runnerVars, patchVars,
      nameVars, isoVars, raceVars>>
nonPatchVars ==
    <<execVars, proxyVars, runnerVars, teardownVars,
      nameVars, isoVars, raceVars>>
nonNameVars ==
    <<execVars, proxyVars, runnerVars, teardownVars,
      patchVars, isoVars, raceVars>>
nonRaceVars ==
    <<execVars, proxyVars, runnerVars, teardownVars,
      patchVars, nameVars, isoVars>>
\* the operations of SpecIsolation drive the scopes and the exec worker
nonIsoVars == <<runnerVars, teardownVars, patchVars, nameVars, raceVars>>

-----------------------------------------------------------------------------
(* Program constants.                                                      *)

DEFAULT_TIMEOUT == 300

\* future.result(timeout=timeout + 5)
WAIT_GRACE == 5

\* the exec layer's timeout marker
EXIT_TIMEOUT == 124

\* resp.returncode when the exec stream yielded no exit status (Python None)
EXIT_NONE == -1

-----------------------------------------------------------------------------
(* Bounds of the model.                                                    *)

\* longest command output, in characters
MaxOutLen == 4

-----------------------------------------------------------------------------
(* Command output.  A text is a sequence of characters over a small        *)
(* alphabet: a plain letter, carriage return, ESC, "[", a character of the *)
(* class [0-9;] and "m".  The local engine hands back bytes, among them a  *)
(* byte that is not valid UTF-8.                                           *)

ESC == "ESC"
CR == "CR"
Chars == {"a", CR, ESC, "[", "1", "m"}
BadByte == "xFF"
Bytes == Chars \cup {BadByte}
Replacement == "uFFFD"

SeqsUpTo(S, n) == UNION {[1..k -> S] : k \in 0..n}

\* bytes.decode("utf-8", errors="replace")
DecodeByte(b) == IF b = BadByte THEN Replacement ELSE b
Decode(bs) == [i \in 1..Len(bs) |-> DecodeByte(bs[i])]

\* length of the longest run of [0-9;] starting at s[i]
RECURSIVE ParamRun(_, _)
ParamRun(s, i) ==
    IF i <= Len(s) /\ s[i] = "1" THEN 1 + ParamRun(s, i + 1) ELSE 0

\* length of the match of \x1b\[[0-9;]*m|\r at s[i], 0 when there is none
MatchLen(s, i) ==
    IF s[i] = CR THEN 1
    ELSE IF s[i] = ESC /\ i + 1 <= Len(s) /\ s[i + 1] = "["
         THEN LET r == ParamRun(s, i + 2)
              IN IF i + 2 + r <= Len(s) /\ s[i + 2 + r] = "m" THEN 3 + r ELSE 0
         ELSE 0

RECURSIVE StripFrom(_, _)
StripFrom(s, i) ==
    IF i > Len(s) THEN <<>>
    ELSE LET k == MatchLen(s, i)
         IN IF k > 0 THEN StripFrom(s, i + k)
            ELSE <<s[i]>> \o StripFrom(s, i + 1)

\* re.sub(r"\x1b\[[0-9;]*m|\r", "", output)
StripAnsi(s) == StripFrom(s, 1)

-----------------------------------------------------------------------------
(* CommandResult: the pair (output text, exit-code text).                  *)

Txt(kind, chars, n, exc) == [kind |-> kind, chars |-> chars, n |-> n, exc |-> exc]

\* f"Command timed out (>{timeout}s)", "-1"
TimedOutResult(t) == <<Txt("timed_out", <<>>, t, ""), Txt("str", <<>>, -1, "")>>
\* "Exit code not found", "-1"
NotFoundResult == <<Txt("exit_code_not_found", <<>>, 0, ""), Txt("str", <<>>, -1, "")>>
\* output, f"Error: Exit code {exit_code}"
NonzeroResult(out, code) == <<Txt("text", out, 0, ""), Txt("error_exit_code", <<>>, code, "")>>
\* output, str(exit_code)
SuccessResult(out, code) == <<Txt("text", out, 0, ""), Txt("str", <<>>, code, "")>>
\* f"Error: {repr(e)}", "-1"
ErrorResult(e) == <<Txt("error_repr", <<>>, 0, e), Txt("str", <<>>, -1, "")>>

NoResult == <<Txt("none", <<>>, 0, ""), Txt("none", <<>>, 0, "")>>

\* what future.result() hands to the caller
Got(kind, out, code, exc) == [kind |-> kind, output |-> out, exit_code |-> code, exc |-> exc]
NoGot == Got("none", <<>>, 0, "")

ExecExceptions == {"ApiException", "ConnectionError"}
Timeouts == {1, DEFAULT_TIMEOUT}
Adapters == {"docker", "kubernetes"}
DockerExitCodes == {0, 1, 7, EXIT_TIMEOUT}
KubeExitCodes == DockerExitCodes \cup {EXIT_NONE}

\* DockerManager.execute_command, after the bounded wait
DockerMapResult(t, got) ==
    IF got.kind = "timeout" THEN TimedOutResult(t)
    ELSE IF got.kind = "exc" THEN ErrorResult(got.exc)
    ELSE LET output == Decode(got.output)
             exit_code == got.exit_code
         IN IF exit_code = EXIT_TIMEOUT THEN TimedOutResult(t)
            ELSE IF exit_code # 0 THEN NonzeroResult(output, exit_code)
            ELSE SuccessResult(StripAnsi(output), exit_code)

\* KubernetesManager.execute_command, after the bounded wait
KubeMapResultNoneUnchecked(t, got) ==
    IF got.kind = "timeout" THEN TimedOutResult(t)
    ELSE IF got.kind = "exc" THEN ErrorResult(got.exc)
    ELSE LET output == got.output
             exit_code == got.exit_code
         IN IF exit_code = EXIT_TIMEOUT THEN TimedOutResult(t)
            ELSE IF exit_code # 0 THEN NonzeroResult(output, exit_code)
            ELSE SuccessResult(StripAnsi(output), exit_code)

KubeMapResult(t, got) ==
    IF got.kind = "timeout" THEN TimedOutResult(t)
    ELSE IF got.kind = "exc" THEN ErrorResult(got.exc)
    ELSE LET output == got.output
             exit_code == got.exit_code
         IN IF exit_code = EXIT_NONE THEN NotFoundResult
            ELSE IF exit_code = EXIT_TIMEOUT THEN TimedOutResult(t)
            ELSE IF exit_code # 0 THEN NonzeroResult(output, exit_code)
            ELSE SuccessResult(StripAnsi(output), exit_code)

MapResult(adapter, t, got) ==
    IF adapter = "docker" THEN DockerMapResult(t, got) ELSE KubeMapResult(t, got)

-----------------------------------------------------------------------------
(* execute_command as a state machine.  The caller submits the exec call   *)
(* to a one-worker pool, waits at most timeout + 5 seconds for the future, *)
(* leaves the pool's with-block (shutdown(wait=True), which joins the      *)
(* worker) and maps what it got to a CommandResult.                        *)

ExecIdle ==
    /\ xAdapter = "docker"
    /\ xTimeout = DEFAULT_TIMEOUT
    /\ xpc = "idle"
    /\ xWorker = "none"
    /\ xElapsed = 0
    /\ xGot = NoGot
    /\ xResult = NoResult
    /\ xExecCalls = 0

\* executor.submit(...): the worker starts the engine's exec call, which
\* either completes at some time or never does ("hung")
ExecSubmit ==
    /\ xpc = "idle"
    /\ \E a \in Adapters, t \in Timeouts, w \in {"running", "hung"} :
          /\ xAdapter' = a
          /\ xTimeout' = t
          /\ xWorker' = w
    /\ xpc' = "waiting"
    /\ xElapsed' = 0
    /\ xGot' = NoGot
    /\ xResult' = NoResult
    /\ xExecCalls' = 1
    /\ UNCHANGED nonExecVars

\* a second passes while the caller is inside future.result
ExecTick ==
    /\ xpc = "waiting"
    /\ xWorker \in {"running", "hung"}
    /\ xElapsed < xTimeout + WAIT_GRACE
    /\ xElapsed' = xElapsed + 1
    /\ UNCHANGED <<xAdapter, xTimeout, xpc, xWorker, xGot, xResult, xExecCalls>>
    /\ UNCHANGED nonExecVars

\* the engine's exec call comes back (returns or raises) in the worker;
\* a hung call never does.  The time waited so far no longer matters to a
\* caller whose future is done.
WorkerFinish ==
    /\ xWorker = "running"
    /\ xpc \in {"waiting", "shutdown"}
    /\ xWorker' \in {"done", "raised"}
    /\ xElapsed' = IF xpc = "waiting" THEN 0 ELSE xElapsed
    /\ UNCHANGED <<xAdapter, xTimeout, xpc, xGot, xResult, xExecCalls>>
    /\ UNCHANGED nonExecVars

\* future.result returns the worker's value
FutureValue ==
    /\ xpc = "waiting"
    /\ xWorker = "done"
    /\ \E out \in SeqsUpTo(IF xAdapter = "docker" THEN Bytes ELSE Chars, MaxOutLen),
          code \in (IF xAdapter = "docker" THEN DockerExitCodes ELSE KubeExitCodes) :
          xGot' = Got("value", out, code, "")
    /\ xpc' = "shutdown"
    /\ UNCHANGED <<xAdapter, xTimeout, xWorker, xElapsed, xResult, xExecCalls>>
    /\ UNCHANGED nonExecVars

\* future.result re-raises the worker's exception
FutureRaises ==
    /\ xpc = "waiting"
    /\ xWorker = "raised"
    /\ \E e \in ExecExceptions : xGot' = Got("exc", <<>>, 0, e)
    /\ xpc' = "shutdown"
    /\ UNCHANGED <<xAdapter, xTimeout, xWorker, xElapsed, xResult, xExecCalls>>
    /\ UNCHANGED nonExecVars

\* future.result raises concurrent.futures.TimeoutError at timeout + 5
FutureTimeout ==
    /\ xpc = "waiting"
    /\ xWorker \in {"running", "hung"}
    /\ xElapsed = xTimeout + WAIT_GRACE
    /\ xGot' = Got("timeout", <<>>, 0, "")
    /\ xpc' = "shutdown"
    /\ UNCHANGED <<xAdapter, xTimeout, xWorker, xElapsed, xResult, xExecCalls>>
    /\ UNCHANGED nonExecVars

\* leaving "with ThreadPoolExecutor(...) as executor": shutdown(wait=True)
\* returns only once the worker has finished its call
ShutdownReturnsAtOnce(worker) == TRUE

ShutdownReturns(worker) == worker \in {"done", "raised"}

ExecutorShutdown ==
    /\ xpc = "shutdown"
    /\ ShutdownReturns(xWorker)
    /\ xpc' = "mapping"
    /\ UNCHANGED <<xAdapter, xTimeout, xWorker, xElapsed, xGot, xResult, xExecCalls>>
    /\ UNCHANGED nonExecVars

\* whether execute_command submits the exec call again after what
\* future.result gave: every branch and both except clauses return
ExecRetriedOnTimeout(got) == got.kind = "timeout"

ExecRetried(got) == FALSE

\* the branches after the with-block and the except clauses
ExecReturn ==
    /\ xpc = "mapping"
    /\ IF ExecRetried(xGot)
       THEN /\ xpc' = "waiting"
            /\ xWorker' \in {"running", "hung"}
            /\ xElapsed' = 0
            /\ xGot' = NoGot
            /\ xExecCalls' = xExecCalls + 1
            /\ UNCHANGED xResult
       ELSE /\ xResult' = MapResult(xAdapter, xTimeout, xGot)
            /\ xpc' = "returned"
            /\ UNCHANGED <<xWorker, xElapsed, xGot, xExecCalls>>
    /\ UNCHANGED <<xAdapter, xTimeout>>
    /\ UNCHANGED nonExecVars

\* the caller goes on to its next call
ExecNextCall ==
    /\ xpc = "returned"
    /\ xpc' = "idle"
    /\ xWorker' = "none"
    /\ xElapsed' = 0
    /\ xGot' = NoGot
    /\ xResult' = NoResult
    /\ xExecCalls' = 0
    /\ UNCHANGED <<xAdapter, xTimeout>>
    /\ UNCHANGED nonExecVars

\* the steps of the caller's own thread inside one call
ExecCallerStep ==
    FutureValue \/ FutureRaises \/ FutureTimeout \/ ExecutorShutdown \/ ExecReturn

ExecNext ==
    \/ ExecSubmit
    \/ ExecTick
    \/ WorkerFinish
    \/ FutureValue
    \/ FutureRaises
    \/ FutureTimeout
    \/ ExecutorShutdown
    \/ ExecReturn
    \/ ExecNextCall

-----------------------------------------------------------------------------
(* ProxyManager.  os.environ is modelled on the eight proxy variables; a   *)
(* variable is either absent or holds a string, possibly the empty one.    *)

ProxyVarNames ==
    {"http_proxy", "https_proxy", "HTTP_PROXY", "HTTPS_PROXY",
     "ftp_proxy", "FTP_PROXY", "no_proxy", "NO_PROXY"}
Absent == "<absent>"
ProxyValues == {"", "http://proxy:3128"}
Environs == [ProxyVarNames -> ProxyValues \cup {Absent}]

ScopeIds == {1, 2}

\* ProxyManager.__init__
NewProxyManager(disable_proxy) ==
    [disable_proxy |-> disable_proxy,
     original_proxy_settings |-> [v \in ProxyVarNames |-> Absent],
     proxy_disabled |-> FALSE]

\* _disable_proxy: os.environ after the loop
DisabledEnviron(env) == [v \in ProxyVarNames |-> Absent]

\* _disable_proxy: original_proxy_settings after the loop
CapturedSettingsAbsentAsEmpty(env, original) ==
    [v \in ProxyVarNames |-> IF env[v] # Absent THEN env[v] ELSE ""]

CapturedSettings(env, original) ==
    [v \in ProxyVarNames |-> IF env[v] # Absent THEN env[v] ELSE original[v]]

\* _restore_proxy: os.environ after the loop
RestoredEnvironUntouched(env, original) == env

RestoredEnvironEmptyLost(env, original) ==
    [v \in ProxyVarNames |->
        IF original[v] \notin {Absent, ""} THEN original[v] ELSE env[v]]

RestoredEnviron(env, original) ==
    [v \in ProxyVarNames |-> IF original[v] # Absent THEN original[v] ELSE env[v]]

ProxyOff ==
    /\ environ = [v \in ProxyVarNames |-> Absent]
    /\ environ0 = environ
    /\ pm = [s \in ScopeIds |-> NewProxyManager(TRUE)]
    /\ ppc = [s \in ScopeIds |-> "before"]
    /\ opRaised = [s \in ScopeIds |-> FALSE]

\* __enter__
ProxyEnter(s) ==
    /\ ppc[s] = "before"
    /\ IF pm[s].disable_proxy
       THEN /\ environ' = DisabledEnviron(environ)
            /\ pm' = [pm EXCEPT ![s].original_proxy_settings =
                          CapturedSettings(environ, @),
                                ![s].proxy_disabled = TRUE]
       ELSE UNCHANGED <<environ, pm>>
    /\ ppc' = [ppc EXCEPT ![s] = "open"]
    /\ UNCHANGED <<environ0, opRaised>>
    /\ UNCHANGED nonProxyVars

\* the body of the with-statement returns
WrappedReturns(s) ==
    /\ ppc[s] = "open"
    /\ ppc' = [ppc EXCEPT ![s] = "closing"]
    /\ opRaised' = [opRaised EXCEPT ![s] = FALSE]
    /\ UNCHANGED <<environ, environ0, pm>>
    /\ UNCHANGED nonProxyVars

\* the body of the with-statement raises
WrappedRaises(s) ==
    /\ ppc[s] = "open"
    /\ ppc' = [ppc EXCEPT ![s] = "closing"]
    /\ opRaised' = [opRaised EXCEPT ![s] = TRUE]
    /\ UNCHANGED <<environ, environ0, pm>>
    /\ UNCHANGED nonProxyVars

\* __exit__ (it returns None, so an exception of the body propagates)
ProxyExit(s) ==
    /\ ppc[s] = "closing"
    /\ IF pm[s].proxy_disabled
       THEN /\ environ' = RestoredEnviron(environ, pm[s].original_proxy_settings)
            /\ pm' = [pm EXCEPT ![s].original_proxy_settings =
                          [v \in ProxyVarNames |-> Absent],
                                ![s].proxy_disabled = FALSE]
       ELSE UNCHANGED <<environ, pm>>
    /\ ppc' = [ppc EXCEPT ![s] = "after"]
    /\ UNCHANGED <<environ0, opRaised>>
    /\ UNCHANGED nonProxyVars

\* the next "with ProxyManager(disable_proxy=...)" of the thread
ProxyAgain(s) ==
    /\ ppc[s] = "after"
    /\ \E d \in BOOLEAN : pm' = [pm EXCEPT ![s] = NewProxyManager(d)]
    /\ ppc' = [ppc EXCEPT ![s] = "before"]
    /\ opRaised' = [opRaised EXCEPT ![s] = FALSE]
    /\ environ0' = environ
    /\ UNCHANGED environ
    /\ UNCHANGED nonProxyVars

\* one thread, one scope at a time
ProxyInit ==
    /\ environ \in Environs
    /\ environ0 = environ
    /\ \E d \in BOOLEAN :
          pm = [s \in ScopeIds |-> NewProxyManager(IF s = 1 THEN d ELSE TRUE)]
    /\ ppc = [s \in ScopeIds |-> "before"]
    /\ opRaised = [s \in ScopeIds |-> FALSE]

ProxyNext ==
    \/ ProxyEnter(1)
    \/ WrappedReturns(1)
    \/ WrappedRaises(1)
    \/ ProxyExit(1)
    \/ ProxyAgain(1)

\* two threads of one process, each about to run one operation inside a
\* scope of its own with disable_proxy set
ProxyThreadsInit ==
    /\ environ \in Environs
    /\ environ0 = environ
    /\ pm = [s \in ScopeIds |-> NewProxyManager(TRUE)]
    /\ ppc = [s \in ScopeIds |-> "before"]
    /\ opRaised = [s \in ScopeIds |-> FALSE]

\* the threads interleave at the boundaries of __enter__ and __exit__
ProxyThreadsNext ==
    \/ \E s \in ScopeIds : ProxyEnter(s)
    \/ \E s \in ScopeIds : WrappedReturns(s)
    \/ \E s \in ScopeIds : WrappedRaises(s)
    \/ \E s \in ScopeIds : ProxyExit(s)

-----------------------------------------------------------------------------
(* The target lifecycle.  The engine is an opaque service: each call to it *)
(* either takes effect and answers, or fails with an API status or with an *)
(* exception that is no ApiException.                                      *)

\* backoff = 5 / retry_delay = 5
INITIAL_BACKOFF == 5

\* min(backoff * 2, 60)
MAX_BACKOFF == 60

\* copy_to_pod: max_retries = 5
COPY_MAX_RETRIES == 5

\* largest max_retries argument given to start_pod
MaxRetries == 6

\* most events one readiness wait consumes
MaxEvents == 2

\* size of the archive copy_to_pod streams
ArchiveLen == 2

Names == {"n1"}
Images == {"imgA", "imgB"}
Backends == {"docker", "kubernetes"}

Phases == {"Pending", "Running", "Failed", "Succeeded", "Unknown"}
TerminalPhases == {"Failed", "Succeeded", "Unknown"}

\* e.status in (409, 429, 500, 503)
RetryStatuses == {409, 429, 500, 503}
ApiStatuses == RetryStatuses \cup {403, 404}

Failure(api, status) == [api |-> api, status |-> status]
NoFailure == Failure(FALSE, 0)
\* an ApiException with a status, or another exception
Failures == {Failure(TRUE, st) : st \in ApiStatuses} \cup {Failure(FALSE, -1)}

\* how the watch's list call is seen to fail
WatchFailures == {Failure(TRUE, 500), Failure(FALSE, -1)}

Min(a, b) == IF a <= b THEN a ELSE b

\* backoff = min(backoff * 2, 60)
NextBackoffUncapped(b) == b * 2

NextBackoff(b) == Min(b * 2, MAX_BACKOFF)

\* except client.ApiException as e: if e.status in (...) and attempt < max_retries
CreateRetriedAlways(f, att, max_retries) == f.api /\ att < max_retries

CreateRetriedNoConflict(f, att, max_retries) ==
    f.api /\ f.status \in {429, 500, 503} /\ att < max_retries

CreateRetried(f, att, max_retries) ==
    f.api /\ f.status \in RetryStatuses /\ att < max_retries

\* the branches of the loop body of _wait_for_pod_running
WaitVerdictUnknownSkipped(phase, late) ==
    IF late THEN "timeout"
    ELSE IF phase = "Running" THEN "running"
    ELSE IF phase \in {"Failed", "Succeeded"} THEN "terminal"
    ELSE "continue"

WaitVerdict(phase, late) ==
    IF late THEN "timeout"
    ELSE IF phase = "Running" THEN "running"
    ELSE IF phase \in TerminalPhases THEN "terminal"
    ELSE "continue"

Target(status, image) == [status |-> status, image |-> image]
NoTarget == Target("absent", "")

Call(op, name, image, max_retries) ==
    [op |-> op, name |-> name, image |-> image, max_retries |-> max_retries]
NoCall == Call("none", "", "", 0)

Summary(c, o, n, ok) ==
    [op |-> c.op, name |-> c.name, image |-> c.image, outcome |-> o,
     creates |-> n, created |-> ok]
NoPrev == Summary(NoCall, "", 0, FALSE)

\* the lookup by name that precedes creation: read_namespaced_pod answers
\* with the pod / containers.list(all=True, filters={"name": name}) is not empty
FoundNever(name) == FALSE

Found(name) == engine[name].status # "absent"

RunnerIdle ==
    /\ engine = [n \in Names |-> NoTarget]
    /\ pods = {}
    /\ pods0 = {}
    /\ containers = {}
    /\ rpc = "idle"
    /\ call = NoCall
    /\ outcome = "returned"
    /\ attempt = 0
    /\ backoff = 0
    /\ delays = <<>>
    /\ createCalls = 0
    /\ createOk = FALSE
    /\ reused = FALSE
    /\ lastStatus = NoFailure
    /\ events = <<>>
    /\ waitLate = FALSE
    /\ waitEnd = "none"
    /\ tarCursor = 0
    /\ written = {}
    /\ prev = NoPrev
    /\ fresh = TRUE
    /\ assigned = [n \in Names |-> {}]
    /\ watchStopped = FALSE

RunnerOff ==
    /\ requested = "docker"
    /\ manager = "docker"
    /\ backend = "docker"
    /\ retries = 0
    /\ RunnerIdle

\* the backend identifiers a caller may pass
BackendIds == Backends \cup {"podman", ""}

\* if backend not in ["docker", "kubernetes"]
RecognizedAny(b) == TRUE

Recognized(b) == b \in Backends

\* before ContainerRunner(...) is called: no Runner, no adapter, no target
RunnerInit ==
    /\ requested = "unset"
    /\ manager = "none"
    /\ backend = "unset"
    /\ retries = 0
    /\ RunnerIdle

\* ContainerRunner.__init__(backend): an unrecognized identifier raises
\* ValueError before anything else; otherwise self.backend is set and the
\* adapter is constructed, which opens the engine client.  max_retries is
\* what this caller will pass to start_pod.
NewRunner ==
    /\ requested = "unset"
    /\ \E b \in BackendIds :
          /\ requested' = b
          /\ IF ~Recognized(b)
             THEN /\ outcome' = "raised"
                  /\ UNCHANGED <<manager, backend, retries>>
             ELSE /\ backend' = b
                  /\ manager' = IF b = "docker" THEN "docker" ELSE "kubernetes"
                  /\ retries' \in (IF b = "kubernetes" THEN 0..MaxRetries ELSE {0})
                  /\ UNCHANGED outcome
    /\ UNCHANGED <<engine, pods, pods0, containers, rpc, call, attempt, backoff,
                   delays, createCalls, createOk, reused, lastStatus, events,
                   waitLate, waitEnd, tarCursor, written, prev, fresh, assigned,
                   watchStopped>>
    /\ UNCHANGED nonRunnerVars

\* a new call begins: the per-call bookkeeping starts afresh, and the call
\* before it is remembered in prev when the new one is the same start again
Begin(c) ==
    /\ rpc = "idle"
    /\ call' = c
    /\ pods0' = pods
    /\ fresh' = TRUE
    /\ prev' = IF c.op \in {"start_pod", "start_container"} /\ call = c
               THEN Summary(call, outcome, createCalls, createOk)
               ELSE NoPrev
    /\ delays' = <<>>
    /\ events' = <<>>
    /\ waitLate' = FALSE
    /\ waitEnd' = "none"
    /\ written' = {}
    /\ watchStopped' = FALSE

-----------------------------------------------------------------------------
(* KubernetesManager.start_pod                                             *)

\* read_namespaced_pod, and what follows it up to the first creation call
StartPodRead(name, image) ==
    /\ backend = "kubernetes"
    /\ Begin(Call("start_pod", name, image, retries))
    /\ createCalls' = 0
    /\ createOk' = FALSE
    /\ tarCursor' = 0
    /\ UNCHANGED <<requested, manager, backend, retries, engine, containers>>
    /\ \/ \* the pod exists: self.pods[name] = pod; return pod
          /\ Found(name)
          /\ pods' = pods \cup {name}
          /\ assigned' = [assigned EXCEPT ![name] = @ \cup {engine[name].image}]
          /\ reused' = TRUE
          /\ lastStatus' = NoFailure
          /\ rpc' = "idle"
          /\ outcome' = "returned"
          /\ attempt' = 0
          /\ backoff' = 0
       \/ \* 404: go on to create; range(1, max_retries + 1) may be empty, and
          \* the loop's else-clause then raises RuntimeError
          /\ ~Found(name)
          /\ reused' = FALSE
          /\ lastStatus' = Failure(TRUE, 404)
          /\ backoff' = INITIAL_BACKOFF
          /\ IF retries >= 1
             THEN rpc' = "sp_create" /\ outcome' = "running" /\ attempt' = 1
             ELSE rpc' = "idle" /\ outcome' = "raised" /\ attempt' = 0
          /\ UNCHANGED <<pods, assigned>>
       \/ \* any other failure of the read propagates
          /\ \E f \in Failures \ {Failure(TRUE, 404)} : lastStatus' = f
          /\ reused' = FALSE
          /\ rpc' = "idle"
          /\ outcome' = "raised"
          /\ attempt' = 0
          /\ backoff' = 0
          /\ UNCHANGED <<pods, assigned>>
    /\ UNCHANGED nonRunnerVars

\* one iteration of the creation loop: create_namespaced_pod succeeds
StartPodCreateOk ==
    /\ rpc = "sp_create"
    /\ engine[call.name].status = "absent"
    /\ engine' = [engine EXCEPT ![call.name] = Target("Pending", call.image)]
    /\ createCalls' = createCalls + 1
    /\ createOk' = TRUE
    /\ rpc' = "sp_wait"
    /\ UNCHANGED <<requested, manager, backend, retries, pods, pods0, containers, call, outcome,
                   attempt, backoff, delays, reused, lastStatus, events,
                   waitLate, waitEnd, tarCursor, written, prev>>
    /\ UNCHANGED <<fresh, assigned, watchStopped>>
    /\ UNCHANGED nonRunnerVars

\* one iteration of the creation loop: create_namespaced_pod fails
StartPodCreateFails ==
    /\ rpc = "sp_create"
    /\ \E f \in Failures :
          /\ lastStatus' = f
          /\ createCalls' = createCalls + 1
          /\ IF CreateRetried(f, attempt, call.max_retries)
             THEN /\ delays' = Append(delays, backoff)
                  /\ backoff' = NextBackoff(backoff)
                  /\ attempt' = attempt + 1
                  /\ UNCHANGED <<rpc, outcome>>
             ELSE /\ rpc' = "idle"
                  /\ outcome' = "raised"
                  /\ UNCHANGED <<delays, backoff, attempt>>
    /\ UNCHANGED <<pods0, requested, manager, backend, retries, engine, pods, containers, call, createOk, reused,
                   events, waitLate, waitEnd, tarCursor, written, prev>>
    /\ UNCHANGED <<fresh, assigned, watchStopped>>
    /\ UNCHANGED nonRunnerVars

\* _wait_for_pod_running: the watch delivers an event; the rest of start_pod
\* follows when the wait returns
WaitEvent ==
    /\ rpc = "sp_wait"
    /\ Len(events) < MaxEvents
    /\ \E phase \in Phases, late \in {waitLate, TRUE} :
          /\ events' = Append(events, phase)
          /\ waitLate' = late
          /\ engine' = [engine EXCEPT ![call.name].status = phase]
          /\ LET verdict == WaitVerdict(phase, late)
             IN IF verdict = "continue"
                THEN UNCHANGED <<waitEnd, rpc, outcome, pods, assigned, watchStopped>>
                ELSE /\ waitEnd' = verdict
                     /\ watchStopped' = TRUE
                     /\ assigned' = IF verdict = "running"
                                    THEN [assigned EXCEPT ![call.name] =
                                              @ \cup {engine[call.name].image}]
                                    ELSE assigned
                     /\ rpc' = "idle"
                     /\ IF verdict = "running"
                        THEN \* w.stop(); break; self.pods[name] = pod
                             outcome' = "returned" /\ pods' = pods \cup {call.name}
                        ELSE \* w.stop(); raise RuntimeError(...)
                             outcome' = "raised" /\ UNCHANGED pods
    /\ UNCHANGED <<pods0, requested, manager, backend, retries, containers, call, attempt, backoff, delays,
                   createCalls, createOk, reused, lastStatus, tarCursor,
                   written, prev>>
    /\ UNCHANGED fresh
    /\ UNCHANGED nonRunnerVars

\* _wait_for_pod_running: the stream of w.stream(..., timeout_seconds=timeout)
\* ends (the watch expired, or the connection closed): the for loop is over,
\* the function returns, and start_pod registers the pod
WaitStreamEnds ==
    /\ rpc = "sp_wait"
    /\ \E late \in {waitLate, TRUE} : waitLate' = late
    /\ waitEnd' = "stream_end"
    /\ pods' = pods \cup {call.name}
    /\ rpc' = "idle"
    /\ outcome' = "returned"
    /\ UNCHANGED <<pods0, requested, manager, backend, retries, engine, containers, call, attempt, backoff, delays,
                   createCalls, createOk, reused, lastStatus, events,
                   tarCursor, written, prev>>
    /\ assigned' = [assigned EXCEPT ![call.name] = @ \cup {engine[call.name].image}]
    /\ UNCHANGED <<fresh, watchStopped>>
    /\ UNCHANGED nonRunnerVars

\* _wait_for_pod_running: the watch's API call raises
WaitStreamRaises ==
    /\ rpc = "sp_wait"
    /\ \E f \in WatchFailures : lastStatus' = f
    /\ waitEnd' = "stream_raised"
    /\ rpc' = "idle"
    /\ outcome' = "raised"
    /\ UNCHANGED <<pods0, requested, manager, backend, retries, engine, pods, containers, call, attempt, backoff,
                   delays, createCalls, createOk, reused, events, waitLate,
                   tarCursor, written, prev>>
    /\ UNCHANGED <<fresh, assigned, watchStopped>>
    /\ UNCHANGED nonRunnerVars

-----------------------------------------------------------------------------
(* KubernetesManager.delete_pod and copy_to_pod                            *)

\* what delete_pod does to self.pods when delete_namespaced_pod answers 404
PodsAfterNotFound(name) == pods

\* what delete_pod does to self.pods when delete_namespaced_pod succeeds
PodsAfterDeleted(name) == pods \ {name}

DeletePod(name) ==
    /\ backend = "kubernetes"
    /\ Begin(Call("delete_pod", name, "", 0))
    /\ createCalls' = 0
    /\ createOk' = FALSE
    /\ reused' = FALSE
    /\ attempt' = 0
    /\ backoff' = 0
    /\ tarCursor' = 0
    /\ rpc' = "idle"
    /\ UNCHANGED <<requested, manager, backend, retries, containers>>
    /\ \/ \* deleted
          /\ engine[name].status # "absent"
          /\ engine' = [engine EXCEPT ![name] = NoTarget]
          /\ pods' = PodsAfterDeleted(name)
          /\ lastStatus' = NoFailure
          /\ outcome' = "returned"
       \/ \* ApiException 404: "Pod already deleted", pass
          /\ engine[name].status = "absent"
          /\ pods' = PodsAfterNotFound(name)
          /\ lastStatus' = Failure(TRUE, 404)
          /\ outcome' = "returned"
          /\ UNCHANGED engine
       \/ \* another ApiException is re-raised, another exception propagates
          /\ \E f \in Failures \ {Failure(TRUE, 404)} : lastStatus' = f
          /\ outcome' = "raised"
          /\ UNCHANGED <<engine, pods>>
    /\ UNCHANGED assigned
    /\ UNCHANGED nonRunnerVars

\* the pod disappears from the cluster without this adapter deleting it
\* (deleted by someone else, evicted); what the caller did before no longer
\* forms a sequence with what it does next
ExternalDelete(name) ==
    /\ backend = "kubernetes"
    /\ rpc = "idle"
    /\ engine[name].status # "absent"
    /\ engine' = [engine EXCEPT ![name] = NoTarget]
    /\ call' = NoCall
    /\ prev' = NoPrev
    /\ outcome' = "returned"
    /\ createCalls' = 0
    /\ createOk' = FALSE
    /\ reused' = FALSE
    /\ attempt' = 0
    /\ backoff' = 0
    /\ delays' = <<>>
    /\ events' = <<>>
    /\ waitLate' = FALSE
    /\ waitEnd' = "none"
    /\ lastStatus' = NoFailure
    /\ tarCursor' = 0
    /\ written' = {}
    /\ pods0' = pods
    /\ fresh' = FALSE
    /\ watchStopped' = FALSE
    /\ UNCHANGED assigned
    /\ UNCHANGED <<requested, manager, backend, retries, pods, containers, rpc>>
    /\ UNCHANGED nonRunnerVars

\* tar_stream.seek(0) in the except clause, before the next attempt
CursorBeforeRetryKept(cursor) == cursor

CursorBeforeRetry(cursor) == 0

\* copy_to_pod up to the retry loop: the archive is built, tar_stream.seek(0)
CopyToPod(name) ==
    /\ backend = "kubernetes"
    /\ Begin(Call("copy_to_pod", name, "", COPY_MAX_RETRIES))
    /\ createCalls' = 0
    /\ createOk' = FALSE
    /\ reused' = FALSE
    /\ attempt' = 0
    /\ backoff' = INITIAL_BACKOFF
    /\ tarCursor' = 0
    /\ lastStatus' = NoFailure
    /\ rpc' = "cp_attempt"
    /\ outcome' = "running"
    /\ UNCHANGED <<requested, manager, backend, retries, engine, pods, containers>>
    /\ UNCHANGED assigned
    /\ UNCHANGED nonRunnerVars

\* one iteration: stream(...), write_stdin(tar_stream.read()), close(), break
CopyAttemptOk ==
    /\ rpc = "cp_attempt"
    /\ engine[call.name].status # "absent"
    /\ written' = written \cup {ArchiveLen - tarCursor}
    /\ tarCursor' = ArchiveLen
    /\ lastStatus' = NoFailure
    /\ rpc' = "idle"
    /\ outcome' = "returned"
    /\ UNCHANGED <<pods0, requested, manager, backend, retries, engine, pods, containers, call, attempt, backoff,
                   delays, createCalls, createOk, reused, events,
                   waitLate, waitEnd, prev>>
    /\ UNCHANGED <<fresh, assigned, watchStopped>>
    /\ UNCHANGED nonRunnerVars

\* one iteration that raises, either in stream(...) before the archive was
\* read or in write_stdin/close after it was: except Exception
CopyAttemptFails ==
    /\ rpc = "cp_attempt"
    /\ \E f \in Failures, wrote \in BOOLEAN :
          /\ lastStatus' = f
          /\ written' = IF wrote THEN written \cup {ArchiveLen - tarCursor}
                        ELSE written
          /\ IF attempt < call.max_retries - 1
             THEN /\ delays' = Append(delays, backoff)
                  /\ backoff' = NextBackoff(backoff)
                  /\ tarCursor' = CursorBeforeRetry(IF wrote THEN ArchiveLen
                                                    ELSE tarCursor)
                  /\ attempt' = attempt + 1
                  /\ UNCHANGED <<rpc, outcome>>
             ELSE /\ tarCursor' = IF wrote THEN ArchiveLen ELSE tarCursor
                  /\ rpc' = "idle"
                  /\ outcome' = "raised"
                  /\ UNCHANGED <<delays, backoff, attempt>>
    /\ UNCHANGED <<pods0, requested, manager, backend, retries, engine, pods, containers, call, createCalls,
                   createOk, reused, events, waitLate, waitEnd, prev>>
    /\ UNCHANGED <<fresh, assigned, watchStopped>>
    /\ UNCHANGED nonRunnerVars

-----------------------------------------------------------------------------
(* DockerManager.start_container and stop_container                        *)

\* the per-call bookkeeping of a call that has no retry loop
NoLoop ==
    /\ attempt' = 0
    /\ backoff' = 0
    /\ tarCursor' = 0

StartContainer(name, image) ==
    /\ backend = "docker"
    /\ Begin(Call("start_container", name, image, 0))
    /\ NoLoop
    /\ rpc' = "idle"
    /\ UNCHANGED <<requested, manager, backend, retries, pods>>
    /\ \/ \* containers.list(...) raises
          /\ lastStatus' = Failure(FALSE, -1)
          /\ outcome' = "raised"
          /\ reused' = FALSE
          /\ createCalls' = 0
          /\ createOk' = FALSE
          /\ UNCHANGED <<engine, containers, assigned>>
       \/ \* found: container.start() unless it is running
          /\ Found(name)
          /\ reused' = TRUE
          /\ createCalls' = 0
          /\ createOk' = FALSE
          /\ \/ /\ engine' = [engine EXCEPT ![name].status = "running"]
                /\ containers' = containers \cup {name}
                /\ assigned' = [assigned EXCEPT ![name] = @ \cup {engine[name].image}]
                /\ lastStatus' = NoFailure
                /\ outcome' = "returned"
             \/ /\ engine[name].status # "running"
                /\ lastStatus' = Failure(FALSE, -1)
                /\ outcome' = "raised"
                /\ UNCHANGED <<engine, containers, assigned>>
       \/ \* not found: containers.run(...), which creates and starts
          /\ ~Found(name)
          /\ reused' = FALSE
          /\ createCalls' = 1
          /\ \/ /\ engine' = [engine EXCEPT ![name] = Target("running", image)]
                /\ createOk' = TRUE
                /\ containers' = containers \cup {name}
                /\ assigned' = [assigned EXCEPT ![name] = @ \cup {image}]
                /\ lastStatus' = NoFailure
                /\ outcome' = "returned"
             \/ \* run raises before the container exists
                /\ createOk' = FALSE
                /\ lastStatus' = Failure(FALSE, -1)
                /\ outcome' = "raised"
                /\ UNCHANGED <<engine, containers, assigned>>
             \/ \* run raises after it created the container
                /\ engine' = [engine EXCEPT ![name] = Target("created", image)]
                /\ createOk' = TRUE
                /\ lastStatus' = Failure(FALSE, -1)
                /\ outcome' = "raised"
                /\ UNCHANGED <<containers, assigned>>
    /\ UNCHANGED nonRunnerVars

StopContainer(name) ==
    /\ backend = "docker"
    /\ Begin(Call("stop_container", name, "", 0))
    /\ NoLoop
    /\ createCalls' = 0
    /\ createOk' = FALSE
    /\ reused' = FALSE
    /\ rpc' = "idle"
    /\ outcome' = "returned"
    /\ UNCHANGED <<requested, manager, backend, retries, pods>>
    /\ \/ \* not managed: nothing happens
          /\ name \notin containers
          /\ lastStatus' = NoFailure
          /\ UNCHANGED <<engine, containers>>
       \/ \* stop(), remove(), del self.containers[name]
          /\ name \in containers
          /\ engine[name].status # "absent"
          /\ engine' = [engine EXCEPT ![name] = NoTarget]
          /\ containers' = containers \ {name}
          /\ lastStatus' = NoFailure
       \/ \* stop() raises: logged and swallowed
          /\ name \in containers
          /\ lastStatus' = Failure(FALSE, -1)
          /\ UNCHANGED <<engine, containers>>
       \/ \* stop() succeeds and remove() raises: logged and swallowed
          /\ name \in containers
          /\ engine[name].status # "absent"
          /\ engine' = [engine EXCEPT ![name].status = "exited"]
          /\ lastStatus' = Failure(FALSE, -1)
          /\ UNCHANGED containers
    /\ UNCHANGED assigned
    /\ UNCHANGED nonRunnerVars

\* the container's command ends by itself
ContainerExits(name) ==
    /\ backend = "docker"
    /\ rpc = "idle"
    /\ engine[name].status = "running"
    /\ engine' = [engine EXCEPT ![name].status = "exited"]
    /\ UNCHANGED <<pods0, requested, manager, backend, retries, pods, containers, rpc, call, outcome, attempt,
                   backoff, delays, createCalls, createOk, reused, lastStatus,
                   events, waitLate, waitEnd, tarCursor, written, prev>>
    /\ fresh' = FALSE
    /\ UNCHANGED <<assigned, watchStopped>>
    /\ UNCHANGED nonRunnerVars

RunnerNext ==
    \/ NewRunner
    \/ \E name \in Names, image \in Images : StartPodRead(name, image)
    \/ StartPodCreateOk
    \/ StartPodCreateFails
    \/ WaitEvent
    \/ WaitStreamEnds
    \/ WaitStreamRaises
    \/ \E name \in Names : DeletePod(name)
    \/ \E name \in Names : ExternalDelete(name)
    \/ \E name \in Names : CopyToPod(name)
    \/ CopyAttemptOk
    \/ CopyAttemptFails
    \/ \E name \in Names, image \in Images : StartContainer(name, image)
    \/ \E name \in Names : StopContainer(name)
    \/ \E name \in Names : ContainerExits(name)

-----------------------------------------------------------------------------
(* KubernetesManager.cleanup and DockerManager.close: a loop over a        *)
(* snapshot of the ManagedSet's names, one teardown per name.              *)

\* most names one adapter manages
MaxTargets == 3

TargetNames == 1..MaxTargets

Range(seq) == {seq[i] : i \in 1..Len(seq)}

\* what one teardown met in the engine
TeardownResults == {"ok", "not_found", "api_error", "error"}

\* delete_pod(pod_name) raises: an ApiException whose status is not 404, or
\* any other exception (a 404 is passed over inside delete_pod)
DeletePodRaises(result) == result \in {"api_error", "error"}

\* cleanup: "except Exception as e" around delete_pod
CleanupCatchesApiOnly(result) == result = "api_error"

CleanupCatches(result) == result \in {"api_error", "error"}

\* stop_container: "except Exception as e" around stop(), remove() and del
StopContainerCatches(result) == result \in {"not_found", "api_error", "error"}

\* whether the teardown of one name propagates out of the loop
TeardownPropagates(b, result) ==
    IF b = "kubernetes"
    THEN DeletePodRaises(result) /\ ~CleanupCatches(result)
    ELSE result # "ok" /\ ~StopContainerCatches(result)

\* self.pods / self.containers after the teardown of one name: both
\* adapters deregister only when the engine calls succeeded
ManagedAfterTeardown(managed, name, result) ==
    IF result = "ok" THEN managed \ {name} ELSE managed

TeardownOff ==
    /\ tdBackend = "docker"
    /\ tdEngine = {}
    /\ tdManaged = {}
    /\ tdSnapshot = {}
    /\ tdOrder = <<>>
    /\ tdFailed = {}
    /\ tdpc = "idle"
    /\ tdCause = "none"

\* an adapter with some names managed; a managed target may have left the
\* engine since it was registered
TeardownInit ==
    /\ tdBackend \in Backends
    /\ tdEngine \in SUBSET TargetNames
    /\ tdManaged \in SUBSET TargetNames
    /\ tdSnapshot = {}
    /\ tdOrder = <<>>
    /\ tdFailed = {}
    /\ tdpc = "idle"
    /\ tdCause = "none"

\* cleanup() / close() is called: list(self.pods.keys())
TeardownBegin ==
    /\ tdpc = "idle"
    /\ tdSnapshot' = tdManaged
    /\ tdOrder' = <<>>
    /\ tdFailed' = {}
    /\ tdCause' = "none"
    /\ tdpc' = "loop"
    /\ UNCHANGED <<tdBackend, tdEngine, tdManaged>>
    /\ UNCHANGED nonTeardownVars

\* one iteration of the loop: delete_pod(pod_name) inside try/except, or
\* stop_container(container_name)
TeardownOne ==
    /\ tdpc = "loop"
    /\ \E name \in tdSnapshot \ Range(tdOrder), result \in TeardownResults :
          /\ result = "ok" => name \in tdEngine
          /\ result = "not_found" => name \notin tdEngine
          /\ tdOrder' = Append(tdOrder, name)
          /\ tdEngine' = IF result = "ok" THEN tdEngine \ {name} ELSE tdEngine
          /\ tdManaged' = ManagedAfterTeardown(tdManaged, name, result)
          /\ tdFailed' = IF result \in {"api_error", "error"}
                             \/ (result = "not_found" /\ tdBackend = "docker")
                         THEN tdFailed \cup {name} ELSE tdFailed
          /\ IF TeardownPropagates(tdBackend, result)
             THEN tdpc' = "done" /\ tdCause' = "teardown"
             ELSE UNCHANGED <<tdpc, tdCause>>
    /\ UNCHANGED <<tdBackend, tdSnapshot>>
    /\ UNCHANGED nonTeardownVars

\* the loop is over: cleanup returns; close goes on to self.client.close()
TeardownLoopEnds ==
    /\ tdpc = "loop"
    /\ tdSnapshot \ Range(tdOrder) = {}
    /\ tdpc' = IF tdBackend = "docker" THEN "closing" ELSE "done"
    /\ UNCHANGED <<tdBackend, tdEngine, tdManaged, tdSnapshot, tdOrder, tdFailed, tdCause>>
    /\ UNCHANGED nonTeardownVars

\* self.client.close(), which is outside every try
ClientClose ==
    /\ tdpc = "closing"
    /\ tdCause' \in {"none", "client_close"}
    /\ tdpc' = "done"
    /\ UNCHANGED <<tdBackend, tdEngine, tdManaged, tdSnapshot, tdOrder, tdFailed>>
    /\ UNCHANGED nonTeardownVars

TeardownNext ==
    \/ TeardownBegin
    \/ TeardownOne
    \/ TeardownLoopEnds
    \/ ClientClose

-----------------------------------------------------------------------------
(* apply_patch_to_container (src/kodo/utils.py): write the patch to a      *)
(* local temporary file, copy it into the target, run "git apply" there,   *)
(* and unlink the temporary file in a finally clause.                      *)

\* what runner.execute_command can hand back on each backend
PatchGots(adapter) ==
    {Got("value", out, code, "") :
        out \in SeqsUpTo({"a", CR}, MaxOutLen),
        code \in (IF adapter = "docker" THEN DockerExitCodes ELSE KubeExitCodes)}
    \cup {Got("timeout", <<>>, 0, "")}
    \cup {Got("exc", <<>>, 0, e) : e \in ExecExceptions}

PatchPairs(adapter) == {MapResult(adapter, DEFAULT_TIMEOUT, g) : g \in PatchGots(adapter)}

\* the ways control leaves the try block
PatchExits == {"copy_raised", "exec_returned", "exec_raised"}

\* finally: os.unlink(local_patch_path)
FinallyRunsOnReturnOnly(exit) == exit = "exec_returned"

FinallyRuns(exit) == exit \in PatchExits

\* the log and the temporary file once control has left the try block
LogAfterExit(log, exit) ==
    IF FinallyRuns(exit) THEN Append(log, "unlink") ELSE log

TempAfterExit(exit) == IF FinallyRuns(exit) THEN "deleted" ELSE "exists"

PatchIdle ==
    /\ apc = "idle"
    /\ apTemp = "none"
    /\ apLog = <<>>
    /\ apCopy = "none"
    /\ apExec = NoResult
    /\ apResult = NoResult
    /\ apOutcome = "none"

PatchOff == apAdapter = "docker" /\ PatchIdle

PatchInit == apAdapter \in Adapters /\ PatchIdle

\* create_temp_file_with_content(patch_content, ".patch") returns the path
PatchWrite ==
    /\ apc = "idle"
    /\ apTemp' = "exists"
    /\ apLog' = <<"write">>
    /\ apc' = "written"
    /\ UNCHANGED <<apAdapter, apCopy, apExec, apResult, apOutcome>>
    /\ UNCHANGED nonPatchVars

\* create_temp_file_with_content raises, before the try block is entered:
\* either no file was created, or the write into it failed and it stays
PatchWriteFails ==
    /\ apc = "idle"
    /\ apTemp' \in {"none", "exists"}
    /\ apLog' = <<>>
    /\ apc' = "done"
    /\ apOutcome' = "raised"
    /\ UNCHANGED <<apAdapter, apCopy, apExec, apResult>>
    /\ UNCHANGED nonPatchVars

\* runner.copy_to_container(...) returns
PatchCopy ==
    /\ apc = "written"
    /\ apCopy' = "ok"
    /\ apLog' = Append(apLog, "copy")
    /\ apc' = "copied"
    /\ UNCHANGED <<apAdapter, apTemp, apExec, apResult, apOutcome>>
    /\ UNCHANGED nonPatchVars

\* runner.copy_to_container(...) raises: the finally clause, then the
\* exception propagates
PatchCopyRaises ==
    /\ apc = "written"
    /\ apCopy' = "raised"
    /\ apLog' = LogAfterExit(Append(apLog, "copy"), "copy_raised")
    /\ apTemp' = TempAfterExit("copy_raised")
    /\ apc' = "done"
    /\ apOutcome' = "raised"
    /\ UNCHANGED <<apAdapter, apExec, apResult>>
    /\ UNCHANGED nonPatchVars

\* runner.execute_command(...) returns a pair: return output, exit_code,
\* through the finally clause
PatchExec ==
    /\ apc = "copied"
    /\ \E pair \in PatchPairs(apAdapter) :
          /\ apExec' = pair
          /\ apResult' = <<pair[1], pair[2]>>
    /\ apLog' = LogAfterExit(Append(apLog, "exec"), "exec_returned")
    /\ apTemp' = TempAfterExit("exec_returned")
    /\ apc' = "done"
    /\ apOutcome' = "returned"
    /\ UNCHANGED <<apAdapter, apCopy>>
    /\ UNCHANGED nonPatchVars

\* runner.execute_command(...) raises (container_ref.metadata.name on a
\* reference that is neither a name nor a pod): finally, then it propagates
PatchExecRaises ==
    /\ apc = "copied"
    /\ apAdapter = "kubernetes"
    /\ apLog' = LogAfterExit(Append(apLog, "exec"), "exec_raised")
    /\ apTemp' = TempAfterExit("exec_raised")
    /\ apc' = "done"
    /\ apOutcome' = "raised"
    /\ UNCHANGED <<apAdapter, apCopy, apExec, apResult>>
    /\ UNCHANGED nonPatchVars

\* the caller applies its next patch
PatchAgain ==
    /\ apc = "done"
    /\ apc' = "idle"
    /\ apTemp' = "none"
    /\ apLog' = <<>>
    /\ apCopy' = "none"
    /\ apExec' = NoResult
    /\ apResult' = NoResult
    /\ apOutcome' = "none"
    /\ apAdapter' \in Adapters
    /\ UNCHANGED nonPatchVars

PatchNext ==
    \/ PatchWrite
    \/ PatchWriteFails
    \/ PatchCopy
    \/ PatchCopyRaises
    \/ PatchExec
    \/ PatchExecRaises
    \/ PatchAgain

-----------------------------------------------------------------------------
(* ContainerUtils.get_container_name: the image name with "/" and ":"      *)
(* replaced by "-", then "-", then the first ten hex digits of the SHA-256 *)
(* of str(datetime.now()) + str(os.getpid()).  The digest is taken as      *)
(* collision-free: it is modelled by the string it was computed from, so   *)
(* two suffixes are equal exactly when the two strings are.                *)

\* longest image name, in characters
MaxImageLen == 2

\* latest reading of the clock
MaxClock == 3

\* hash_object.hexdigest()[:10]
SUFFIX_LEN == 10

ImageChars == {"a", "/", ":"}
ImageNames == SeqsUpTo(ImageChars, MaxImageLen) \ {<<>>}
Pids == {100, 101}

\* image_name.replace("/", "-").replace(":", "-")
SanitizeChar(c) == IF c \in {"/", ":"} THEN "-" ELSE c
Sanitize(image) == [i \in 1..Len(image) |-> SanitizeChar(image[i])]

\* current_time + process_id
UniqueString(time, pid) == <<time, pid>>

\* hashlib.sha256(unique_string.encode()).hexdigest()[:10]
HashSuffix(unique_string) == [sha256_of |-> unique_string, digits |-> SUFFIX_LEN]

\* f"{image_name_sanitized}-{hash_object.hexdigest()[:10]}"
ContainerName(image, time, pid) ==
    [sanitized |-> Sanitize(image), dash |-> "-",
     suffix |-> HashSuffix(UniqueString(time, pid))]

Generated(image, time, name) == [image |-> image, time |-> time, name |-> name]
NoGenerated == Generated(<<>>, -1, ContainerName(<<>>, -1, -1))

NamesOff ==
    /\ gnPid = 100
    /\ gnClock = 0
    /\ gnFirst = NoGenerated
    /\ gnSecond = NoGenerated

NamesInit ==
    /\ gnPid \in Pids
    /\ gnClock = 0
    /\ gnFirst = NoGenerated
    /\ gnSecond = NoGenerated

\* the clock's reading changes: time has passed by at least its resolution
ClockAdvances ==
    /\ gnClock < MaxClock
    /\ gnClock' = gnClock + 1
    /\ UNCHANGED <<gnPid, gnFirst, gnSecond>>
    /\ UNCHANGED nonNameVars

\* one call of get_container_name(image_name)
GetContainerName(image) ==
    /\ gnFirst' = gnSecond
    /\ gnSecond' = Generated(image, gnClock, ContainerName(image, gnClock, gnPid))
    /\ UNCHANGED <<gnPid, gnClock>>
    /\ UNCHANGED nonNameVars

NamesNext ==
    \/ ClockAdvances
    \/ \E image \in ImageNames : GetContainerName(image)

-----------------------------------------------------------------------------
(* The operations of KubernetesManager with disable_proxy set, as one      *)
(* caller runs them: each opens a ProxyManager scope (scope 1), makes its  *)
(* cluster API calls inside it and leaves it; start_pod calls              *)
(* _wait_for_pod_running, which opens a scope of its own (scope 2) inside  *)
(* scope 1; execute_command hands its exec stream to the worker of a       *)
(* ThreadPoolExecutor and waits for it inside scope 1.                     *)

IsoOps == {"__init__", "start_pod", "delete_pod", "copy_to_pod", "execute_command"}

\* the environments the caller may run an operation in
IsoEnvirons ==
    {[v \in ProxyVarNames |-> x] : x \in ProxyValues \cup {Absent}}
    \cup {[v \in ProxyVarNames |->
              IF v \in {"http_proxy", "NO_PROXY"} THEN "http://proxy:3128"
              ELSE IF v = "no_proxy" THEN "" ELSE Absent]}

\* the API calls an operation makes on the caller's thread in scope 1,
\* given those already made
OuterApis(op, done) ==
    CASE op = "__init__" -> {"load_config"} \ done
      [] op = "start_pod" ->
            IF "read" \notin done THEN {"read"}
            ELSE IF "watch" \notin done THEN {"create"} ELSE {}
      [] op = "delete_pod" -> {"delete"} \ done
      [] op = "copy_to_pod" -> {"stream"}
      [] OTHER -> {}

\* whether the body of scope 1 can return after the calls made
OuterComplete(op, done) ==
    CASE op = "start_pod" -> done = {"read"} \/ "watch" \in done
      [] op = "execute_command" -> xpc = "returned"
      [] OTHER -> done # {}

IsoOff ==
    /\ isoOp = "none"
    /\ isoApi = "none"
    /\ isoDone = {}
    /\ isoFailed = FALSE

IsoInit ==
    /\ IsoOff
    /\ environ \in IsoEnvirons
    /\ environ0 = environ
    /\ pm = [s \in ScopeIds |-> NewProxyManager(TRUE)]
    /\ ppc = [s \in ScopeIds |-> "before"]
    /\ opRaised = [s \in ScopeIds |-> FALSE]

\* the caller calls a method of the adapter
IsoCall ==
    /\ isoOp = "none"
    /\ isoOp' \in IsoOps
    /\ UNCHANGED <<isoApi, isoDone, isoFailed>>
    /\ UNCHANGED <<execVars, proxyVars>>
    /\ UNCHANGED nonIsoVars

\* with ProxyManager(disable_proxy=self.disable_proxy): of the method
IsoEnterOuter ==
    /\ isoOp # "none"
    /\ ProxyEnter(1)

\* an API call is issued on the caller's thread inside scope 1
IsoApiBegins ==
    /\ ppc[1] = "open"
    /\ ppc[2] = "before"
    /\ isoApi = "none"
    /\ ~isoFailed
    /\ isoApi' \in OuterApis(isoOp, isoDone)
    /\ UNCHANGED <<isoOp, isoDone, isoFailed>>
    /\ UNCHANGED <<execVars, proxyVars>>
    /\ UNCHANGED nonIsoVars

\* the API call in flight answers, or fails so that the method raises (a
\* failure the method retries or passes over counts as an answer)
IsoApiEnds ==
    /\ isoApi # "none"
    /\ isoDone' = isoDone \cup {isoApi}
    /\ isoApi' = "none"
    /\ isoFailed' \in BOOLEAN
    /\ UNCHANGED isoOp
    /\ UNCHANGED <<execVars, proxyVars>>
    /\ UNCHANGED nonIsoVars

\* start_pod calls _wait_for_pod_running after a successful creation:
\* with ProxyManager(...) of the wait
IsoEnterInner ==
    /\ isoOp = "start_pod"
    /\ "create" \in isoDone
    /\ isoApi = "none"
    /\ ~isoFailed
    /\ ppc[1] = "open"
    /\ ProxyEnter(2)

\* w.stream(self.client.list_namespaced_pod, ...) inside scope 2
IsoWatchBegins ==
    /\ ppc[2] = "open"
    /\ isoApi = "none"
    /\ "watch" \notin isoDone
    /\ isoApi' = "watch"
    /\ UNCHANGED <<isoOp, isoDone, isoFailed>>
    /\ UNCHANGED <<execVars, proxyVars>>
    /\ UNCHANGED nonIsoVars

\* the wait returns or raises, and its scope is left
IsoInnerReturns ==
    /\ isoApi = "none"
    /\ "watch" \in isoDone
    /\ ~isoFailed
    /\ WrappedReturns(2)

IsoInnerRaises ==
    /\ isoApi = "none"
    /\ "watch" \in isoDone
    /\ isoFailed
    /\ WrappedRaises(2)

\* __exit__ of the wait's scope
IsoExitInner ==
    /\ isoOp = "start_pod"
    /\ ProxyExit(2)

\* execute_command: executor.submit(execute) inside scope 1
IsoSubmit ==
    /\ isoOp = "execute_command"
    /\ ppc[1] = "open"
    /\ ExecSubmit
    /\ xAdapter' = "kubernetes"

\* future.result returns the worker's value (short outputs are enough here)
IsoFutureValue ==
    /\ FutureValue
    /\ Len(xGot'.output) <= 1

\* the body of scope 1 returns or raises, and scope 1 is left
IsoOuterReturns ==
    /\ isoApi = "none"
    /\ ppc[2] \in {"before", "after"}
    /\ ~isoFailed
    /\ OuterComplete(isoOp, isoDone)
    /\ WrappedReturns(1)

IsoOuterRaises ==
    /\ isoApi = "none"
    /\ ppc[2] \in {"before", "after"}
    /\ isoFailed
    /\ WrappedRaises(1)

\* __exit__ of the method's scope
IsoExitOuter ==
    /\ isoOp # "none"
    /\ ProxyExit(1)

\* the method is over; before its next call the caller may have changed
\* the proxy variables
IsoNextOperation ==
    /\ ppc[1] = "after"
    /\ isoOp' = "none"
    /\ isoApi' = "none"
    /\ isoDone' = {}
    /\ isoFailed' = FALSE
    /\ environ' \in IsoEnvirons
    /\ environ0' = environ'
    /\ pm' = [s \in ScopeIds |-> NewProxyManager(TRUE)]
    /\ ppc' = [s \in ScopeIds |-> "before"]
    /\ opRaised' = [s \in ScopeIds |-> FALSE]
    /\ xpc' = "idle"
    /\ xWorker' = "none"
    /\ xElapsed' = 0
    /\ xGot' = NoGot
    /\ xResult' = NoResult
    /\ xExecCalls' = 0
    /\ UNCHANGED <<xAdapter, xTimeout>>
    /\ UNCHANGED nonIsoVars

IsoNext ==
    \/ IsoCall
    \/ IsoEnterOuter
    \/ IsoApiBegins
    \/ IsoApiEnds
    \/ IsoEnterInner
    \/ IsoWatchBegins
    \/ IsoInnerReturns
    \/ IsoInnerRaises
    \/ IsoExitInner
    \/ IsoSubmit
    \/ ExecTick
    \/ WorkerFinish
    \/ IsoFutureValue
    \/ FutureRaises
    \/ FutureTimeout
    \/ ExecutorShutdown
    \/ ExecReturn
    \/ IsoOuterReturns
    \/ IsoOuterRaises
    \/ IsoExitOuter
    \/ IsoNextOperation

-----------------------------------------------------------------------------
(* Two callers, each with a KubernetesManager of its own, call start_pod   *)
(* for the same name at the same time.                                     *)

RaceCallers == {1, 2}

RaceOff ==
    /\ rcEngine = "absent"
    /\ rcAccepted = 0
    /\ rcMax = 0
    /\ rcPc = <<>>
    /\ rcAttempt = <<>>
    /\ rcReads = <<>>
    /\ rcCreates = <<>>
    /\ rcConflicts = <<>>
    /\ rcOutcome = <<>>
    /\ rcPods = <<>>

\* both managers are constructed with no pod of their own, the name is
\* absent from the cluster, and both callers pass the same max_retries
RaceInit ==
    /\ rcEngine = "absent"
    /\ rcAccepted = 0
    /\ rcMax \in 0..MaxRetries
    /\ rcPc = [c \in RaceCallers |-> "start"]
    /\ rcAttempt = [c \in RaceCallers |-> 0]
    /\ rcReads = [c \in RaceCallers |-> 0]
    /\ rcCreates = [c \in RaceCallers |-> 0]
    /\ rcConflicts = [c \in RaceCallers |-> 0]
    /\ rcOutcome = [c \in RaceCallers |-> "running"]
    /\ rcPods = [c \in RaceCallers |-> {}]

\* start_pod of caller c: read_namespaced_pod and what follows its answer
RaceRead(c) ==
    /\ rcPc[c] = "start"
    /\ rcReads' = [rcReads EXCEPT ![c] = @ + 1]
    /\ \/ \* the pod exists: self.pods[name] = pod; return pod
          /\ rcEngine = "exists"
          /\ rcPods' = [rcPods EXCEPT ![c] = {"n1"}]
          /\ rcPc' = [rcPc EXCEPT ![c] = "done"]
          /\ rcOutcome' = [rcOutcome EXCEPT ![c] = "returned"]
          /\ UNCHANGED rcAttempt
       \/ \* 404: on to the creation loop, which may be empty
          /\ rcEngine = "absent"
          /\ IF rcMax >= 1
             THEN /\ rcPc' = [rcPc EXCEPT ![c] = "create"]
                  /\ rcAttempt' = [rcAttempt EXCEPT ![c] = 1]
                  /\ UNCHANGED rcOutcome
             ELSE /\ rcPc' = [rcPc EXCEPT ![c] = "done"]
                  /\ rcOutcome' = [rcOutcome EXCEPT ![c] = "raised"]
                  /\ UNCHANGED rcAttempt
          /\ UNCHANGED rcPods
       \/ \* any other failure of the read propagates
          /\ rcPc' = [rcPc EXCEPT ![c] = "done"]
          /\ rcOutcome' = [rcOutcome EXCEPT ![c] = "raised"]
          /\ UNCHANGED <<rcPods, rcAttempt>>
    /\ UNCHANGED <<rcEngine, rcAccepted, rcMax, rcCreates, rcConflicts>>
    /\ UNCHANGED nonRaceVars

\* one iteration of the creation loop of caller c: the cluster accepts the
\* creation of a name it does not have
RaceCreateOk(c) ==
    /\ rcPc[c] = "create"
    /\ rcEngine = "absent"
    /\ rcEngine' = "exists"
    /\ rcAccepted' = rcAccepted + 1
    /\ rcCreates' = [rcCreates EXCEPT ![c] = @ + 1]
    /\ rcPc' = [rcPc EXCEPT ![c] = "wait"]
    /\ UNCHANGED <<rcMax, rcAttempt, rcReads, rcConflicts, rcOutcome, rcPods>>
    /\ UNCHANGED nonRaceVars

\* the answers of the cluster to a creation it does not accept: 409 for a
\* name it has, or another failure
RaceRefusals ==
    IF rcEngine = "exists"
    THEN Failures \ {Failure(TRUE, 404)}
    ELSE Failures \ {Failure(TRUE, 404), Failure(TRUE, 409)}

\* one iteration of the creation loop of caller c: create_namespaced_pod
\* raises
RaceCreateFails(c) ==
    /\ rcPc[c] = "create"
    /\ \E f \in RaceRefusals :
          /\ rcCreates' = [rcCreates EXCEPT ![c] = @ + 1]
          /\ rcConflicts' = [rcConflicts EXCEPT ![c] =
                                IF f = Failure(TRUE, 409) THEN @ + 1 ELSE @]
          /\ IF CreateRetried(f, rcAttempt[c], rcMax)
             THEN /\ rcAttempt' = [rcAttempt EXCEPT ![c] = @ + 1]
                  /\ UNCHANGED <<rcPc, rcOutcome>>
             ELSE /\ rcPc' = [rcPc EXCEPT ![c] = "done"]
                  /\ rcOutcome' = [rcOutcome EXCEPT ![c] = "raised"]
                  /\ UNCHANGED rcAttempt
    /\ UNCHANGED <<rcEngine, rcAccepted, rcMax, rcReads, rcPods>>
    /\ UNCHANGED nonRaceVars

\* _wait_for_pod_running of caller c returns: self.pods[name] = pod
RaceWaitReturns(c) ==
    /\ rcPc[c] = "wait"
    /\ rcPods' = [rcPods EXCEPT ![c] = {"n1"}]
    /\ rcPc' = [rcPc EXCEPT ![c] = "done"]
    /\ rcOutcome' = [rcOutcome EXCEPT ![c] = "returned"]
    /\ UNCHANGED <<rcEngine, rcAccepted, rcMax, rcAttempt, rcReads, rcCreates, rcConflicts>>
    /\ UNCHANGED nonRaceVars

\* _wait_for_pod_running of caller c raises
RaceWaitRaises(c) ==
    /\ rcPc[c] = "wait"
    /\ rcPc' = [rcPc EXCEPT ![c] = "done"]
    /\ rcOutcome' = [rcOutcome EXCEPT ![c] = "raised"]
    /\ UNCHANGED <<rcEngine, rcAccepted, rcMax, rcAttempt, rcReads, rcCreates, rcConflicts, rcPods>>
    /\ UNCHANGED nonRaceVars

RaceNext ==
    \/ \E c \in RaceCallers : RaceRead(c)
    \/ \E c \in RaceCallers : RaceCreateOk(c)
    \/ \E c \in RaceCallers : RaceCreateFails(c)
    \/ \E c \in RaceCallers : RaceWaitReturns(c)
    \/ \E c \in RaceCallers : RaceWaitRaises(c)

-----------------------------------------------------------------------------
(* Specifications.                                                         *)

InitExec == ExecIdle /\ ProxyOff /\ RunnerOff /\ TeardownOff /\ PatchOff /\ NamesOff /\ IsoOff /\ RaceOff
SpecExec == InitExec /\ [][ExecNext]_vars

InitProxy == ProxyInit /\ ExecIdle /\ RunnerOff /\ TeardownOff /\ PatchOff /\ NamesOff /\ IsoOff /\ RaceOff
SpecProxy == InitProxy /\ [][ProxyNext]_vars

Init == RunnerInit /\ ExecIdle /\ ProxyOff /\ TeardownOff /\ PatchOff /\ NamesOff /\ IsoOff /\ RaceOff
Next == RunnerNext
Spec == Init /\ [][Next]_vars

InitTeardown == TeardownInit /\ ExecIdle /\ ProxyOff /\ RunnerOff /\ PatchOff /\ NamesOff /\ IsoOff /\ RaceOff
SpecTeardown == InitTeardown /\ [][TeardownNext]_vars

InitProxyThreads == ProxyThreadsInit /\ ExecIdle /\ RunnerOff /\ TeardownOff /\ PatchOff /\ NamesOff /\ IsoOff /\ RaceOff
SpecProxyThreads == InitProxyThreads /\ [][ProxyThreadsNext]_vars

InitPatch == PatchInit /\ ExecIdle /\ ProxyOff /\ RunnerOff /\ TeardownOff /\ NamesOff /\ IsoOff /\ RaceOff
SpecPatch == InitPatch /\ [][PatchNext]_vars

InitIsolation == IsoInit /\ ExecIdle /\ RunnerOff /\ TeardownOff /\ PatchOff /\ NamesOff /\ RaceOff
SpecIsolation == InitIsolation /\ [][IsoNext]_vars

InitRace == RaceInit /\ ExecIdle /\ ProxyOff /\ RunnerOff /\ TeardownOff /\ PatchOff /\ NamesOff /\ IsoOff
SpecRace == InitRace /\ [][RaceNext]_vars

InitNames ==
    NamesInit /\ ExecIdle /\ ProxyOff /\ RunnerOff /\ TeardownOff /\ PatchOff
        /\ IsoOff /\ RaceOff
SpecNames == InitNames /\ [][NamesNext]_vars

-----------------------------------------------------------------------------
(* Claims about execute_command (SpecExec).                                *)

\* C1: when the exec call hangs and the bounded wait of timeout + 5 seconds
\* has expired, the caller is not blocked: until it has returned it can
\* always take its next step, whatever the abandoned worker does.
C1_HungExecStillReturns ==
    (xWorker = "hung" /\ xElapsed = xTimeout + WAIT_GRACE /\ xpc # "returned")
        => ENABLED ExecCallerStep

\* the raw output as the caller sees it (the local engine's bytes decoded)
RawOutput == IF xAdapter = "docker" THEN Decode(xGot.output) ELSE xGot.output

\* the letters of a text that belong to no escape sequence
Plain(s) == SelectSeq(s, LAMBDA c : c \in {"a", Replacement})

C15_ExecNeverRetried ==
    /\ xExecCalls <= 1
    /\ xpc # "idle" => xExecCalls = 1

\* a call that was timed out at the wait has returned after one invocation
C15_Witness ==
    /\ xpc = "returned"
    /\ xGot.kind = "timeout"
    /\ xResult = TimedOutResult(xTimeout)
    /\ xExecCalls = 1

-----------------------------------------------------------------------------
(* Claims about the Proxy Isolation Scope (SpecProxy).                     *)

\* C9: used by one thread, a scope leaves every proxy variable exactly as it
\* found it (same value, or still absent) once it has been entered and
\* exited, whether the wrapped operation returned or raised; while an
\* isolating scope (disable_proxy set) is open, all eight are absent.
C9_ScopeRestoresEnvironment ==
    /\ ppc[1] = "after" => environ = environ0
    /\ (ppc[1] \in {"open", "closing"} /\ pm[1].disable_proxy) =>
           \A v \in ProxyVarNames : environ[v] = Absent

\* an isolating scope whose operation raised has been exited, over an
\* environment holding a value, an empty value and an absent variable
C9_Witness ==
    /\ ppc[1] = "after"
    /\ opRaised[1]
    /\ pm[1].disable_proxy
    /\ environ["http_proxy"] = "http://proxy:3128"
    /\ environ["no_proxy"] = ""
    /\ environ["FTP_PROXY"] = Absent

\* C18: two scopes open concurrently do not isolate.  Whenever one scope
\* has been exited while the other is still inside its wrapped operation,
\* every proxy variable that was set before both and that the open scope
\* did not capture itself (it was entered while the other was open) is
\* present again, with its old value, in the process environment.
C18_ConcurrentScopesLeak ==
    \A s \in ScopeIds, t \in ScopeIds, v \in ProxyVarNames :
        (/\ s # t
         /\ ppc[s] = "after"
         /\ ppc[t] = "open"
         /\ pm[t].proxy_disabled
         /\ pm[t].original_proxy_settings[v] = Absent
         /\ environ0[v] # Absent) =>
            environ[v] = environ0[v]

\* scope 2 was entered while scope 1 was open; scope 1 has exited and put
\* http_proxy back while scope 2 is still open
C18_Witness ==
    /\ ppc[1] = "after"
    /\ ppc[2] = "open"
    /\ pm[2].proxy_disabled
    /\ pm[2].original_proxy_settings = [v \in ProxyVarNames |-> Absent]
    /\ environ0["http_proxy"] = "http://proxy:3128"
    /\ environ["http_proxy"] = "http://proxy:3128"

-----------------------------------------------------------------------------
(* Claims about the target lifecycle (Spec).                               *)

InStartPod == call.op = "start_pod"
LastEvent == events[Len(events)]

\* C3: start_pod with max_retries = N issues at most N creation calls; after
\* a failed one another follows only if its status was 409, 429, 500 or 503
\* and fewer than N were made; any other failure propagates after that one
\* attempt with no sleep; after N failed attempts start_pod raises and has
\* not registered the name.  Two failures and a success are 3 attempts.
C3_CreateAttemptsBounded ==
    InStartPod =>
        /\ createCalls <= call.max_retries
        /\ (rpc = "sp_create" /\ createCalls >= 1) =>
              /\ lastStatus.api
              /\ lastStatus.status \in {409, 429, 500, 503}
              /\ createCalls < call.max_retries
        /\ rpc = "sp_create" => Len(delays) = createCalls
        /\ (rpc # "sp_create" /\ createCalls >= 1) => Len(delays) = createCalls - 1
        /\ createCalls = 0 => delays = <<>>
        /\ (rpc = "idle" /\ ~reused /\ ~createOk) =>
              /\ outcome = "raised"
              /\ pods = pods0
              /\ createCalls >= 1 =>
                    \/ createCalls = call.max_retries
                    \/ ~lastStatus.api
                    \/ lastStatus.status \notin {409, 429, 500, 503}

\* creation answered 409 and retried, then accepted at the third attempt
C3_Witness ==
    /\ InStartPod
    /\ rpc = "sp_wait"
    /\ createOk
    /\ createCalls = 3
    /\ lastStatus = Failure(TRUE, 409)
    /\ delays = <<5, 10>>

\* C4: in both retry loops (start_pod, copy_to_pod) the k-th delay slept is
\* min(5 * 2^(k-1), 60): the delays start at 5, double, never decrease and
\* never exceed 60.
C4_BackoffSequence ==
    call.op \in {"start_pod", "copy_to_pod"} =>
        \A k \in 1..Len(delays) :
            /\ delays[k] = Min(5 * 2^(k - 1), 60)
            /\ delays[k] <= 60
            /\ k > 1 => delays[k - 1] <= delays[k]

\* five sleeps in one start_pod, the fifth at the ceiling
C4_Witness ==
    /\ InStartPod
    /\ Len(delays) = 5
    /\ delays[4] = 40
    /\ delays[5] = 60

\* C5: a pod start_pod creates is registered in self.pods only after the
\* readiness wait has observed Running; when creation fails or the wait does
\* not observe Running, start_pod raises and has not registered the name.
C5_RegisteredOnlyAfterRunning ==
    (InStartPod /\ ~reused) =>
        /\ rpc # "idle" => pods = pods0
        /\ rpc = "idle" =>
              IF waitEnd = "running"
              THEN outcome = "returned" /\ call.name \in pods
              ELSE outcome = "raised" /\ pods = pods0

\* C6: of the events delivered before the timeout elapses, the wait skips
\* those whose phase is neither Running nor terminal, returns at the first
\* Running without consuming more, and raises the terminal-phase error at
\* the first Failed, Succeeded or Unknown.
C6_ReadinessWaitVerdict ==
    (InStartPod /\ events # <<>>) =>
        /\ \A i \in 1..(Len(events) - 1) :
              events[i] \notin {"Running", "Failed", "Succeeded", "Unknown"}
        /\ ~waitLate =>
              /\ LastEvent = "Running" =>
                    waitEnd = "running" /\ rpc = "idle" /\ outcome = "returned"
              /\ LastEvent \in {"Failed", "Succeeded", "Unknown"} =>
                    waitEnd = "terminal" /\ rpc = "idle" /\ outcome = "raised"
              /\ LastEvent \notin {"Running", "Failed", "Succeeded", "Unknown"} =>
                    waitEnd \in {"none", "stream_end", "stream_raised"}
        /\ waitEnd = "running" => LastEvent = "Running"
        /\ waitEnd = "terminal" => LastEvent \in {"Failed", "Succeeded", "Unknown"}

\* the stream Pending, Running ends the wait successfully
C6_Witness ==
    /\ InStartPod
    /\ events = <<"Pending", "Running">>
    /\ ~waitLate
    /\ waitEnd = "running"
    /\ outcome = "returned"
    /\ call.name \in pods

\* C7: a readiness wait that is over without a failure of the watch itself
\* has observed Running and returned, or has observed a terminal phase and
\* raised, or else has raised the timeout failure: it never returns without
\* having observed Running, also when the stream delivered nothing or ended
\* after Pending events only.
C7_WaitTimesOutWithoutRunning ==
    (InStartPod /\ waitEnd \notin {"none", "stream_raised"}) =>
        \/ waitEnd = "running" /\ events # <<>> /\ LastEvent = "Running"
        \/ waitEnd = "terminal" /\ events # <<>> /\ LastEvent \in TerminalPhases
        \/ waitEnd = "timeout" /\ outcome = "raised"

IsStart(op) == op \in {"start_pod", "start_container"}

\* C8 as stated: two starts in sequence with the same name and image, both
\* returning a target, issue at most one creation call in total.
C8_AtMostOneCreationCall ==
    (IsStart(prev.op) /\ rpc = "idle"
        /\ prev.outcome = "returned" /\ outcome = "returned") =>
        prev.creates + createCalls <= 1

\* C8 as amended: of two starts in sequence with the same name and image, at
\* most one creation call succeeds; when the first returned a target the
\* second issues no creation call, and when it returns it has found the
\* existing target by name and registered it (the local backend leaving it
\* running); the first issues at most one creation call on the local backend
\* and at most max_retries on the cluster backend.
C8_SecondStartReuses ==
    IsStart(prev.op) =>
        /\ ~(prev.created /\ createOk)
        /\ prev.creates <= (IF backend = "docker" THEN 1 ELSE call.max_retries)
        /\ prev.outcome = "returned" =>
              /\ createCalls = 0
              /\ (rpc = "idle" /\ outcome = "returned") =>
                    /\ reused
                    /\ call.name \in (IF backend = "docker" THEN containers ELSE pods)
                    /\ (backend = "docker" /\ fresh) =>
                          engine[call.name].status = "running"

\* a start that needed three creation calls, then the same start again,
\* which reused the pod
C8_Witness ==
    /\ backend = "kubernetes"
    /\ IsStart(prev.op)
    /\ prev.outcome = "returned"
    /\ prev.creates = 3
    /\ prev.created
    /\ rpc = "idle"
    /\ outcome = "returned"
    /\ reused
    /\ createCalls = 0

\* C10: when delete_pod returns without raising, also after a 404, the name
\* is no longer in self.pods; when it raises, self.pods is unchanged.
C10_DeleteDeregisters ==
    (call.op = "delete_pod" /\ rpc = "idle") =>
        IF outcome = "returned" THEN call.name \notin pods ELSE pods = pods0

\* C13: copy_to_pod makes at most 5 attempts, a further one only after a
\* failed one, and none after a successful one; every attempt starts with
\* the read cursor at offset 0 and hands the complete archive to
\* write_stdin; it raises only after the fifth failed attempt.
C13_CopyAttemptsRewound ==
    call.op = "copy_to_pod" =>
        /\ attempt + 1 <= 5
        /\ Len(delays) = attempt
        /\ written \subseteq {ArchiveLen}
        /\ rpc = "cp_attempt" =>
              /\ tarCursor = 0
              /\ attempt >= 1 => lastStatus # NoFailure
        /\ rpc = "idle" =>
              /\ outcome = "returned" =>
                    lastStatus = NoFailure /\ written = {ArchiveLen}
              /\ outcome = "raised" =>
                    lastStatus # NoFailure /\ attempt + 1 = 5

\* four attempts failed after the archive had been read, and the fifth
\* delivered it whole
C13_Witness ==
    /\ call.op = "copy_to_pod"
    /\ rpc = "idle"
    /\ outcome = "returned"
    /\ attempt = 4
    /\ delays = <<5, 10, 20, 40>>
    /\ written = {ArchiveLen}
    /\ tarCursor = ArchiveLen

\* C12: on the local backend stop_container never propagates an engine
\* failure and, once it has returned, the name is no longer in
\* self.containers: after start, execute_command, stop on one target the
\* ManagedSet is empty.
C12_StopDeregisters ==
    (call.op = "stop_container" /\ rpc = "idle") =>
        /\ outcome = "returned"
        /\ call.name \notin containers

\* C14: a name keeps its image: the targets that starts on one Runner have
\* returned under one name all have the same image, and a start that
\* returns a target returns one of the image it was asked for.
C14_NameKeepsImage ==
    /\ \A n \in Names : Cardinality(assigned[n]) <= 1
    /\ (IsStart(call.op) /\ rpc = "idle" /\ outcome = "returned") =>
          engine[call.name].image = call.image

\* C16: ContainerRunner(backend) with an identifier other than "docker" and
\* "kubernetes" raises at once: no adapter has been constructed, self.backend
\* is not set, no call was made and no target exists.
C16_UnknownBackendRejected ==
    requested \notin {"unset", "docker", "kubernetes"} =>
        /\ outcome = "raised"
        /\ manager = "none"
        /\ backend = "unset"
        /\ engine = [n \in Names |-> NoTarget]
        /\ pods = {}
        /\ containers = {}
        /\ call = NoCall
        /\ createCalls = 0

\* ContainerRunner("podman") has raised
C16_Witness ==
    /\ requested = "podman"
    /\ outcome = "raised"
    /\ manager = "none"

\* C20: by whichever path the readiness wait is over (Running, a terminal
\* phase, the timeout failure, the stream ending by itself, the stream
\* raising), it has called w.stop() on its watch.
C20_WatchStoppedOnEveryExit ==
    (InStartPod /\ waitEnd # "none") => watchStopped

\* C21: in copy_to_pod a failed attempt is followed by another one only
\* when the failure was transient (an API status 409, 429, 500 or 503); a
\* failure of any other kind (404, 403, an exception that is no API error)
\* ends the call at once: it has raised, and no sleep followed the failure.
C21_CopyRetriesTransientOnly ==
    (/\ call.op = "copy_to_pod"
     /\ lastStatus # NoFailure
     /\ ~(lastStatus.api /\ lastStatus.status \in {409, 429, 500, 503})) =>
        /\ rpc = "idle"
        /\ outcome = "raised"

\* C23: whenever a start has just returned a handle (start_container or
\* start_pod, having created the target or found it by name), the target is
\* in the Running state in the engine and its name is in the ManagedSet.
C23_StartReturnsRunning ==
    (IsStart(call.op) /\ rpc = "idle" /\ outcome = "returned" /\ fresh) =>
        /\ engine[call.name].status \in {"Running", "running"}
        /\ call.name \in (IF backend = "docker" THEN containers ELSE pods)

\* C24: between operations, a pod that start_pod has created in the engine
\* and that is still there is in self.pods, also when the readiness wait
\* that followed its creation failed or timed out, so that cleanup() will
\* delete it.
C24_CreatedPodIsManaged ==
    (/\ call.op = "start_pod"
     /\ rpc = "idle"
     /\ createOk
     /\ engine[call.name].status # "absent") =>
        call.name \in pods

-----------------------------------------------------------------------------
(* Claims about teardown (SpecTeardown).                                   *)

\* C11: cleanup and close attempt the teardown of every name that was in
\* the ManagedSet when they were called, each once, whatever failed on the
\* names before it, and no failure of an individual teardown propagates to
\* the caller.
C11_BestEffortTeardown ==
    /\ tdCause # "teardown"
    /\ tdpc \in {"loop", "closing", "done"} =>
          /\ Range(tdOrder) \subseteq tdSnapshot
          /\ Cardinality(Range(tdOrder)) = Len(tdOrder)
    /\ tdpc \in {"closing", "done"} => Range(tdOrder) = tdSnapshot
    /\ (tdpc = "done" /\ tdBackend = "kubernetes") => tdCause = "none"

\* three managed names: the teardown of the first and of the second failed
\* and the third was still attempted
C11_Witness ==
    /\ tdpc = "done"
    /\ tdCause = "none"
    /\ Len(tdOrder) = 3
    /\ tdOrder[1] \in tdFailed
    /\ tdOrder[2] \in tdFailed
    /\ tdOrder[3] \notin tdFailed

-----------------------------------------------------------------------------
(* Claims about apply_patch_to_container (SpecPatch).                      *)

\* C17: the steps are write, copy, execute, in this order, and the unlink
\* of the temporary file comes last; once the function is over after the
\* copy raised or the command returned (or raised), the temporary file is
\* deleted; the command is not executed when the copy raised; and the pair
\* returned is the pair execute_command returned, unchanged.
C17_PatchOrderAndCleanup ==
    /\ apLog \in {<<>>, <<"write">>, <<"write", "copy">>,
                   <<"write", "copy", "unlink">>,
                   <<"write", "copy", "exec", "unlink">>}
    /\ (apc = "done" /\ apCopy # "none") => apTemp = "deleted"
    /\ apCopy = "raised" =>
          /\ "exec" \notin Range(apLog)
          /\ apExec = NoResult
          /\ apc = "done" /\ apOutcome = "raised"
    /\ apOutcome = "returned" =>
          /\ apExec # NoResult
          /\ apResult = apExec
          /\ apLog = <<"write", "copy", "exec", "unlink">>

\* "git apply" ended with exit code 1: the pair comes back unchanged and
\* the temporary file is gone
C17_Witness ==
    /\ apc = "done"
    /\ apOutcome = "returned"
    /\ apResult = NonzeroResult(<<"a">>, 1)
    /\ apTemp = "deleted"
    /\ apLog = <<"write", "copy", "exec", "unlink">>

-----------------------------------------------------------------------------
(* Claims about the Identity Generator (SpecNames).                        *)

\* C19: every generated name is the image with "/" and ":" replaced by "-",
\* then "-", then a 10-character suffix computed from the time read and
\* the process id; and two calls in immediate succession with the same
\* image return different names.
C19_SuccessiveNamesDiffer ==
    /\ gnSecond # NoGenerated =>
          /\ Len(gnSecond.name.sanitized) = Len(gnSecond.image)
          /\ \A i \in 1..Len(gnSecond.image) :
                gnSecond.name.sanitized[i] =
                    (IF gnSecond.image[i] \in {"/", ":"} THEN "-"
                     ELSE gnSecond.image[i])
          /\ gnSecond.name.dash = "-"
          /\ gnSecond.name.suffix.digits = 10
          /\ gnSecond.name.suffix.sha256_of = <<gnSecond.time, gnPid>>
    /\ (gnFirst # NoGenerated /\ gnFirst.image = gnSecond.image) =>
          gnFirst.name # gnSecond.name

-----------------------------------------------------------------------------
(* Claims about the scopes around the cluster API calls (SpecIsolation).   *)

\* C22: with disable_proxy set and one caller, whenever a cluster API call
\* is in flight (on the caller's thread, or the exec stream on the worker
\* of execute_command) all eight proxy variables are absent from the
\* process environment; the scope of execute_command is not left while its
\* worker is still in the exec call.
C22_ApiCallsRunIsolated ==
    /\ (isoApi # "none" \/ xWorker \in {"running", "hung"}) =>
          \A v \in ProxyVarNames : environ[v] = Absent
    /\ xWorker \in {"running", "hung"} => ppc[1] = "open"

\* the wait of execute_command has timed out while the exec stream is still
\* running on the worker, over an environment that had the variables set
C22_Witness ==
    /\ isoOp = "execute_command"
    /\ xpc = "shutdown"
    /\ xGot.kind = "timeout"
    /\ xWorker = "running"
    /\ environ0["http_proxy"] = "http://proxy:3128"
    /\ environ["http_proxy"] = Absent

\* C26: nested scopes on one thread: the inner scope captures nothing, the
\* variables stay absent until the outer scope is left, also after the
\* inner one was left, and after the outer scope the environment is the
\* one from before it.
C26_NestedScopesRestore ==
    /\ ppc[2] # "before" =>
          pm[2].original_proxy_settings = [v \in ProxyVarNames |-> Absent]
    /\ ppc[1] \in {"open", "closing"} =>
          \A v \in ProxyVarNames : environ[v] = Absent
    /\ ppc[1] = "after" => environ = environ0

\* start_pod is over, the wait's scope was entered and left inside it, and
\* the variables are back
C26_Witness ==
    /\ isoOp = "start_pod"
    /\ ppc[1] = "after"
    /\ ppc[2] = "after"
    /\ environ["http_proxy"] = "http://proxy:3128"
    /\ environ["no_proxy"] = ""
    /\ environ["ftp_proxy"] = Absent

-----------------------------------------------------------------------------
(* Claims about two callers starting the same name (SpecRace).             *)

\* C25: the cluster accepts at most one of the creations; no caller reads
\* the pod again after its first read; a caller all of whose creation
\* attempts were answered 409 ends by raising after exactly max_retries
\* attempts and has not registered the name.
C25_LoserRaisesAfterMaxRetries ==
    /\ rcAccepted <= 1
    /\ \A c \in RaceCallers :
          /\ rcReads[c] <= 1
          /\ (rcCreates[c] >= 1 /\ rcConflicts[c] = rcCreates[c]) =>
                /\ rcPods[c] = {}
                /\ rcPc[c] = "done" =>
                      /\ rcOutcome[c] = "raised"
                      /\ rcCreates[c] = rcMax

\* one caller created the pod and returned it; the other read 404 before
\* that, was answered 409 three times and raised
C25_Witness ==
    \E c \in RaceCallers : \E d \in RaceCallers :
        /\ c # d
        /\ rcMax = 3
        /\ rcPc[c] = "done"
        /\ rcOutcome[c] = "raised"
        /\ rcReads[c] = 1
        /\ rcConflicts[c] = 3
        /\ rcCreates[d] = 1
        /\ rcOutcome[d] = "returned"
        /\ rcPods[d] = {"n1"}

====
